---- MODULE Spec2Model ----
(***************************************************************************)
(* Traffic anomaly scoring and attack-pattern classification of            *)
(* src/utils/data_processing.py (DoSDataProcessor, AttackPatternAnalyzer), *)
(* with the static functions of MetricsCalculator, the feature extraction  *)
(* and the simulation generator.  Spec runs the processor and the analyzer *)
(* on one batch; SpecAnalyzer the analyzer alone, on more batches;         *)
(* SpecCalculator one call of a calculator function; SpecFeatures the      *)
(* feature extraction; SpecSources the processor on batches of many        *)
(* source distributions; SpecPipeline the processor followed by the        *)
(* analyzer or the feature extraction; SpecSimulation the generator.       *)
(*                                                                         *)
(* A traffic batch is a pandas DataFrame.  Its rows are kept run-length    *)
(* encoded: a group [ts, src, bytes, n] stands for n consecutive rows with *)
(* the same minute ts, source src and size bytes.  Floating point values   *)
(* are fixed-point numbers with FracBits fractional binary digits, each    *)
(* operation rounded where the code's float operation rounds.              *)
(***************************************************************************)
EXTENDS Integers, Sequences, FiniteSets, TLC

\* ------------------------------------------------------------------ bounds
MaxRuns == 2          \* groups in a batch of the general family
MaxSources == 11      \* distinct sources in a batch of the even family
MaxCalls == 2         \* calls of process_traffic_data on one batch

Minutes == {0, 13}            \* minute of a group's timestamp
Sources == {1, 2}             \* source ids of the general family
Sizes == {100, 2000}          \* bytes of one observation
Mults == {100, 1400}           \* rows in one group
EvenMults == {1, 2}           \* rows per source in the even family
WideSources == {100, 101}     \* distinct sources in a batch of the wide family
WideMults == {1, 6}           \* rows per source in the wide family
TierSources == {1, 2, 3, 4, 5, 12, 19, 20}   \* sources of the tiered family

\* arguments of calculate_attack_severity
TrafficVolumes == {0, 150, 151, 200, 201, 500, 501, 1000, 1001}
BaselineVolumes == {-100, 0, 100}
DurationMinutes == {0, 15, 16, 60, 61, 240, 241, 300}
AffectedServices == {0, 1, 2, 3, 5, 6}

\* arguments of calculate_business_impact (the factor in hundredths)
HourlyRevenues == {0, 1000, 10000}
OutageHours == {0, 1, 4}
DegradationPercents == {0, 50, 100, 150}
ReputationFactors == {0, 30, 100}

\* metric dictionaries of calculate_mitigation_effectiveness
MetricValues == {-40, 0, 40, 160}

\* arguments of generate_attack_simulation_data
SimulatedTypes == {"constant", "escalating", "pulsing", "syn_flood",
                   "udp_flood", "amplification"}
SimDurations == {0, 1}        \* duration_hours
SimIntensities == {1, 6}      \* intensity

\* ------------------------------------------------------------ fixed point
FracBits == 8                 \* fractional binary digits of a float
One == 256                    \* 1.0 in fixed point (2^FracBits)
MantOne == 16384              \* 1.0 as the mantissa inside log2 (2^14)
NaN == -1000000               \* float('nan'), outside every computed range

RECURSIVE GCD(_, _)
GCD(a, b) == IF b = 0 THEN a ELSE GCD(b, a % b)

Min(a, b) == IF a <= b THEN a ELSE b

\* round-to-nearest quotient a / b for b > 0
RoundDiv(a, b) == (2 * a + b) \div (2 * b)

RECURSIVE Pow2(_)
Pow2(e) == IF e = 0 THEN 1 ELSE 2 * Pow2(e - 1)

RECURSIVE FloorLog2(_)
FloorLog2(n) == IF n < 2 THEN 0 ELSE 1 + FloorLog2(n \div 2)

\* fractional binary digits of log2 of the mantissa y in [1,2), by squaring
RECURSIVE Log2Bits(_, _, _)
Log2Bits(y, i, acc) ==
    IF i = 0 THEN acc
    ELSE LET sq == (y * y) \div MantOne
         IN  IF sq >= 2 * MantOne
             THEN Log2Bits(sq \div 2, i - 1, 2 * acc + 1)
             ELSE Log2Bits(sq, i - 1, 2 * acc)

\* np.log2(n) for an integer n >= 1, rounded to FracBits fractional digits
Log2Fix(n) ==
    LET e == FloorLog2(n)
        y == (n * MantOne) \div Pow2(e)
        v == e * (2 * One) + Log2Bits(y, FracBits + 1, 0)
    IN  (v + 1) \div 2

\* a/b > c/d for a, c >= 0 and b, d > 0, without forming the cross products
RECURSIVE FracGt(_, _, _, _)
FracGt(a, b, c, d) ==
    LET q1 == a \div b
        q2 == c \div d
        r1 == a % b
        r2 == c % d
    IN  IF q1 # q2 THEN q1 > q2
        ELSE IF r1 = 0 THEN FALSE
        ELSE IF r2 = 0 THEN TRUE
        ELSE FracGt(d, r2, b, r1)

\* largest r with r * r <= n, one binary digit at a time
RECURSIVE IsqrtBits(_, _, _)
IsqrtBits(n, r, bit) ==
    IF bit = 0 THEN r
    ELSE IF (r + bit) <= n \div (r + bit)
         THEN IsqrtBits(n, r + bit, bit \div 2)
         ELSE IsqrtBits(n, r, bit \div 2)

Isqrt(n) == IsqrtBits(n, 0, 32768)

\* floor(a * m / d) for a >= 0, keeping the intermediate products small
MulDiv(a, m, d) == (a \div d) * m + ((a % d) * m) \div d

\* ------------------------------------------------------------ the DataFrame
VARIABLES
    columns,      \* traffic_data.columns
    index,        \* "range" or "timestamp" (after set_index)
    tsDtype,      \* dtype of the timestamp values
    rows,         \* the rows, run-length encoded
    now,          \* datetime.now(), a logical clock
    calls,        \* calls of process_traffic_data made so far
    report,       \* value returned by the last process_traffic_data
    prevReport,   \* value returned by the call before it
    patterns,     \* value returned by the last analyze_attack_pattern
    lastCall,     \* the last operation called and its argument
    given,        \* the frame as it was when that operation was called
    raised,       \* exception raised by the last operation
    args,         \* arguments of the last call of a stateless function
    returned      \* value that call returned

vars == <<columns, index, tsDtype, rows, now, calls, report, prevReport,
          patterns, lastCall, given, raised, args, returned>>

\* the frame an operation is called with
Frame == [columns |-> columns, index |-> index, tsDtype |-> tsDtype,
          rows |-> rows]

Cols == {"timestamp", "source_ip", "bytes"}

NoResult == [none |-> TRUE]     \* no call made yet
EmptyDict == [k \in {} |-> 0]   \* {}

\* f[lo] + ... + f[hi], by halves
RECURSIVE SumRange(_, _, _)
SumRange(f, lo, hi) ==
    IF lo > hi THEN 0
    ELSE IF lo = hi THEN f[lo]
    ELSE LET mid == (lo + hi) \div 2
         IN  SumRange(f, lo, mid) + SumRange(f, mid + 1, hi)

SumN(rws) == SumRange([i \in DOMAIN rws |-> rws[i].n], 1, Len(rws))

\* len(data)
NRows(rws) == SumN(rws)

\* data.empty: either axis has length zero
IsEmpty(cols, rws) == cols = {} \/ NRows(rws) = 0

SumBytes(rws) ==
    SumRange([i \in DOMAIN rws |-> rws[i].n * rws[i].bytes], 1, Len(rws))

\* ---------------------------------------------------- data['source_ip']
SrcCount(rws, s) ==
    SumRange([i \in DOMAIN rws |-> IF rws[i].src = s THEN rws[i].n ELSE 0],
             1, Len(rws))

SrcSet(rws) == {rws[i].src : i \in {j \in 1..Len(rws) : rws[j].n > 0}}

\* index of the first row group of source s
FirstSeen(rws, s) == CHOOSE i \in 1..Len(rws) :
    /\ rws[i].src = s /\ rws[i].n > 0
    /\ \A j \in 1..(i - 1) : ~(rws[j].src = s /\ rws[j].n > 0)

\* value_counts(): sources by descending count, ties in order of appearance
\* (entry i is the source that has i - 1 sources before it)
ValueCountsOf(count, first, srcs) ==
    LET Before(s, t) == \/ count[s] > count[t]
                        \/ count[s] = count[t] /\ first[s] < first[t]
        rank == [s \in srcs |-> Cardinality({t \in srcs : Before(t, s)})]
    IN  IF rank = rank
        THEN [i \in 1..Cardinality(srcs) |->
                 LET top == CHOOSE s \in srcs : rank[s] = i - 1
                 IN  [source_ip |-> top, count |-> count[top]]]
        ELSE <<>>

\* (the two equalities make TLC tabulate count and first once)
ValueCounts(rws) ==
    LET count == [s \in SrcSet(rws) |-> SrcCount(rws, s)]
        first == [s \in SrcSet(rws) |-> FirstSeen(rws, s)]
    IN  IF count = count /\ first = first
        THEN ValueCountsOf(count, first, SrcSet(rws))
        ELSE <<>>

\* the last k entries instead of the first k
HeadKAs(seq, k) == SubSeq(seq, Len(seq) - Min(k, Len(seq)) + 1, Len(seq))

\* Series.head(k)
HeadK(seq, k) == SubSeq(seq, 1, Min(k, Len(seq)))

RECURSIVE SumCount(_)
SumCount(vc) == IF vc = <<>> THEN 0 ELSE Head(vc).count + SumCount(Tail(vc))

\* ------------------------------------------------------- DoSDataProcessor
\* one term p * log2(p) of the entropy sum, p = count / total (p > 0)
PLogP(count, total) ==
    LET g == GCD(count, total)
        a == count \div g
        b == total \div g
        lg == Log2Fix(a) - Log2Fix(b)
    IN  RoundDiv(a * lg, b)

RECURSIVE SumPLogP(_, _)
SumPLogP(vc, total) ==
    IF vc = <<>> THEN 0
    ELSE PLogP(Head(vc).count, total) + SumPLogP(Tail(vc), total)

\* the counts taken as they are, not divided by their total
CalculateEntropyAs(vc) ==
    IF Len(vc) = 0 THEN 0
    ELSE 0 - SumPLogP(vc, 1)

\* _calculate_entropy(source_counts.values), in fixed point
CalculateEntropy(vc) ==
    IF Len(vc) = 0 THEN 0
    ELSE IF SumCount(vc) = 0 THEN 0
    ELSE 0 - SumPLogP(vc, SumCount(vc))

\* 100 * count / total, in fixed point
Percentage(count, total) == RoundDiv(count * 100 * One, total)

\* a source counted as suspicious from exactly 5% on
IdentifySuspiciousSourcesAs(vc) ==
    LET total == SumCount(vc)
        high == SelectSeq(vc, LAMBDA e : 20 * e.count >= total)
    IN  [i \in 1..Len(high) |->
            [source_ip |-> high[i].source_ip,
             request_count |-> high[i].count,
             percentage |-> Percentage(high[i].count, total),
             reason |-> "High volume source"]]

\* _identify_suspicious_sources(source_counts)
IdentifySuspiciousSources(vc) ==
    LET total == SumCount(vc)
        high == SelectSeq(vc, LAMBDA e : 20 * e.count > total)
    IN  [i \in 1..Len(high) |->
            [source_ip |-> high[i].source_ip,
             request_count |-> high[i].count,
             percentage |-> Percentage(high[i].count, total),
             reason |-> "High volume source"]]

\* _calculate_source_metrics(data)
CalculateSourceMetrics(cols, rws) ==
    IF "source_ip" \notin cols THEN EmptyDict
    ELSE LET source_counts == ValueCounts(rws)
         IN  [unique_source_ips |-> Len(source_counts),
              top_source_requests |->
                  IF source_counts # <<>> THEN source_counts[1].count ELSE 0,
              top_10_source_percentage |->
                  Percentage(SumCount(HeadK(source_counts, 10)), NRows(rws)),
              source_ip_entropy |-> CalculateEntropy(source_counts),
              source_distribution |-> HeadK(source_counts, 20),
              suspicious_sources |-> IdentifySuspiciousSources(source_counts)]

\* _calculate_volume_metrics(data); byte averages in sixteenths
CalculateVolumeMetrics(cols, rws) ==
    LET total_requests == NRows(rws)
        base == [total_requests |-> total_requests,
                 requests_per_second |->
                     IF total_requests > 0
                     THEN RoundDiv(total_requests * One, 3600) ELSE 0]
        total_bytes == SumBytes(rws)
    IN  IF "bytes" \in cols
        THEN [total_requests |-> base.total_requests,
              requests_per_second |-> base.requests_per_second,
              total_bytes |-> total_bytes,
              avg_bytes_per_request |->
                  IF total_requests > 0
                  THEN RoundDiv(total_bytes * 16, total_requests) ELSE 0,
              bytes_per_second |->
                  IF total_bytes > 0 THEN RoundDiv(total_bytes * 16, 3600) ELSE 0]
        ELSE base

\* ------------------------------------------------- data.resample('1T')
TsSet(rws) == {rws[i].ts : i \in {j \in 1..Len(rws) : rws[j].n > 0}}
FirstMinute(rws) == CHOOSE t \in TsSet(rws) : \A u \in TsSet(rws) : t <= u
LastMinute(rws) == CHOOSE t \in TsSet(rws) : \A u \in TsSet(rws) : t >= u

\* the 1-minute windows from the first to the last timestamp, gaps included
Windows(rws) == IF TsSet(rws) = {} THEN {} ELSE FirstMinute(rws)..LastMinute(rws)

RECURSIVE WinCount(_, _)
WinCount(rws, t) ==
    IF rws = <<>> THEN 0
    ELSE (IF Head(rws).ts = t THEN Head(rws).n ELSE 0) + WinCount(Tail(rws), t)

RECURSIVE WinBytes(_, _)
WinBytes(rws, t) ==
    IF rws = <<>> THEN 0
    ELSE (IF Head(rws).ts = t THEN Head(rws).n * Head(rws).bytes ELSE 0)
             + WinBytes(Tail(rws), t)

\* resample('1T').size() and resample('1T')['bytes'].sum()
ResampleSize(rws) == [t \in Windows(rws) |-> WinCount(rws, t)]
ResampleBytes(rws) == [t \in Windows(rws) |-> WinBytes(rws, t)]

RECURSIVE SumOver(_, _)
SumOver(f, S) ==
    IF S = {} THEN 0
    ELSE LET t == CHOOSE u \in S : TRUE IN f[t] + SumOver(f, S \ {t})

SeriesSum(f) == SumOver(f, DOMAIN f)
SeriesSumSq(f) == SumOver([t \in DOMAIN f |-> f[t] * f[t]], DOMAIN f)
SeriesMax(f) == CHOOSE m \in {f[t] : t \in DOMAIN f} : \A t \in DOMAIN f : f[t] <= m
SeriesLen(f) == Cardinality(DOMAIN f)

\* n * sum(x^2) - sum(x)^2 = n * (n - 1) * sample variance
VarNumer(f) == SeriesLen(f) * SeriesSumSq(f) - SeriesSum(f) * SeriesSum(f)

\* Series.std() (ddof = 1) in quarters; NaN for a single window
SeriesStd(f) ==
    IF SeriesLen(f) < 2 THEN NaN
    ELSE Isqrt(MulDiv(VarNumer(f), 16, SeriesLen(f) * (SeriesLen(f) - 1)))

\* Series.mean() in fixed point
SeriesMean(f) == RoundDiv(SeriesSum(f) * One, SeriesLen(f))

\* _calculate_time_metrics(data): the dictionary it returns
CalculateTimeMetrics(cols, rws) ==
    IF "timestamp" \notin cols THEN EmptyDict
    ELSE LET rpm_data == ResampleSize(rws)
             bpm_data == IF "bytes" \in cols THEN ResampleBytes(rws)
                         ELSE EmptyDict
             std == SeriesStd(rpm_data)
         IN  [avg_requests_per_minute |->
                  IF SeriesLen(rpm_data) > 0 THEN SeriesMean(rpm_data) ELSE 0,
              max_requests_per_minute |->
                  IF SeriesLen(rpm_data) > 0 THEN SeriesMax(rpm_data) ELSE 0,
              std_requests_per_minute |->
                  IF SeriesLen(rpm_data) > 0 THEN std ELSE 0,
              avg_bytes_per_minute |->
                  IF SeriesLen(bpm_data) > 0
                  THEN RoundDiv(SeriesSum(bpm_data) * 16, SeriesLen(bpm_data))
                  ELSE 0,
              max_bytes_per_minute |->
                  IF SeriesLen(bpm_data) > 0 THEN SeriesMax(bpm_data) ELSE 0,
              total_duration_minutes |-> SeriesLen(rpm_data),
              traffic_variability |->
                  IF SeriesLen(rpm_data) > 0 /\ SeriesSum(rpm_data) > 0
                  THEN (IF std = NaN THEN NaN
                        ELSE RoundDiv(std * 64 * SeriesLen(rpm_data),
                                      SeriesSum(rpm_data)))
                  ELSE 0]

\* count > mean + 3 * std over the windows of f (never true for one window,
\* where std is NaN)
ExceedsThreshold(f, count) ==
    LET n == SeriesLen(f)
        d == n * count - SeriesSum(f)
    IN  /\ n >= 2
        /\ d > 0
        /\ FracGt(d, 9 * n, VarNumer(f), d * (n - 1))

\* minute_counts.mean() + 3 * minute_counts.std(), in quarters
Threshold(f) ==
    IF SeriesStd(f) = NaN THEN NaN
    ELSE RoundDiv(SeriesSum(f) * 4, SeriesLen(f)) + 3 * SeriesStd(f)

RECURSIVE SortedSeq(_)
SortedSeq(S) ==
    IF S = {} THEN <<>>
    ELSE LET lo == CHOOSE t \in S : \A u \in S : t <= u
         IN  <<lo>> \o SortedSeq(S \ {lo})

\* the 'high_volume_periods' list built by _detect_traffic_anomalies
HighVolumePeriods(cols, rws) ==
    IF "timestamp" \in cols
    THEN LET minute_counts == ResampleSize(rws)
             high == SortedSeq({t \in DOMAIN minute_counts :
                                  ExceedsThreshold(minute_counts, minute_counts[t])})
         IN  [i \in 1..Len(high) |->
                 [timestamp |-> high[i],
                  request_count |-> minute_counts[high[i]],
                  threshold |-> Threshold(minute_counts)]]
    ELSE <<>>

\* the share compared as a fraction against 20, the factor 100 forgotten
SourceConcentrationAs(cols, rws) ==
    LET source_counts == ValueCounts(rws)
    IN  IF "source_ip" \in cols /\ source_counts # <<>>
        THEN source_counts[1].count > 20 * NRows(rws)
        ELSE FALSE

\* a share of exactly 20% counted as a concentration
SourceConcentrationAtLeast(cols, rws) ==
    LET source_counts == ValueCounts(rws)
    IN  IF "source_ip" \in cols /\ source_counts # <<>>
        THEN 5 * source_counts[1].count >= NRows(rws)
        ELSE FALSE

\* the 'source_concentration' flag set by _detect_traffic_anomalies
SourceConcentration(cols, rws) ==
    LET source_counts == ValueCounts(rws)
    IN  IF "source_ip" \in cols /\ source_counts # <<>>
        THEN 5 * source_counts[1].count > NRows(rws)
        ELSE FALSE

\* the contribution of the source entropy to the anomaly score; entropy and
\* log2 are each rounded, so for evenly spread sources the quotient can
\* come out above 1.0 and the contribution below 0
EntropyScore(cols, rws) ==
    LET source_counts == ValueCounts(rws)
        entropy == CalculateEntropy(source_counts)
        max_possible_entropy == Log2Fix(Len(source_counts))
    IN  IF "source_ip" \in cols /\ source_counts # <<>>
        THEN (IF max_possible_entropy > 0
              THEN (One - ((entropy * One) \div max_possible_entropy)) * 2
              ELSE 0)
        ELSE 0

\* the concentration contributing 2.0
CalculateAnomalyScoreAs(cols, rws, anomalies) ==
    LET s1 == IF anomalies.high_volume_periods # <<>>
              THEN Min(3 * One, Len(anomalies.high_volume_periods) * (One \div 2))
              ELSE 0
        s2 == IF anomalies.source_concentration THEN 2 * One ELSE 0
        s3 == EntropyScore(cols, rws)
        s4 == IF NRows(rws) > 1000 THEN 2 * One ELSE 0
    IN  Min(10 * One, s1 + s2 + s3 + s4)

\* _calculate_anomaly_score(data, anomalies), in fixed point
CalculateAnomalyScore(cols, rws, anomalies) ==
    LET s1 == IF anomalies.high_volume_periods # <<>>
              THEN Min(3 * One, Len(anomalies.high_volume_periods) * (One \div 2))
              ELSE 0
        s2 == IF anomalies.source_concentration THEN 3 * One ELSE 0
        s3 == EntropyScore(cols, rws)
        s4 == IF NRows(rws) > 1000 THEN 2 * One ELSE 0
    IN  Min(10 * One, s1 + s2 + s3 + s4)

\* _detect_traffic_anomalies(data)
DetectTrafficAnomalies(cols, rws) ==
    LET anomalies == [high_volume_periods |-> <<>>,
                      source_concentration |-> FALSE,
                      unusual_patterns |-> <<>>,
                      anomaly_score |-> 0]
        found == [high_volume_periods |-> HighVolumePeriods(cols, rws),
                  source_concentration |-> SourceConcentration(cols, rws),
                  unusual_patterns |-> <<>>,
                  anomaly_score |-> 0]
    IN  IF IsEmpty(cols, rws) THEN anomalies
        ELSE [found EXCEPT !.anomaly_score = CalculateAnomalyScore(cols, rws, found)]

\* the columns left by data.set_index('timestamp', inplace=True)
SetIndexInplace(cols) == cols \ {"timestamp"}

\* the frame as _calculate_time_metrics leaves it for the later steps
ColumnsAfterTimeMetrics(cols) ==
    IF "timestamp" \in cols THEN SetIndexInplace(cols) ELSE cols

\* the early return on an empty frame left out
ProcessResultAs(cols, rws, clock) ==
    LET after == ColumnsAfterTimeMetrics(cols)
    IN  [time_metrics |-> EmptyDict,
         source_metrics |-> EmptyDict,
         volume_metrics |-> CalculateVolumeMetrics(after, rws),
         anomalies |-> DetectTrafficAnomalies(after, rws),
         processed_at |-> clock]

\* the value process_traffic_data returns
ProcessResult(cols, rws, clock) ==
    IF IsEmpty(cols, rws) THEN [error |-> "No traffic data provided"]
    ELSE LET after == ColumnsAfterTimeMetrics(cols)
         IN  [time_metrics |-> CalculateTimeMetrics(cols, rws),
              source_metrics |-> CalculateSourceMetrics(after, rws),
              volume_metrics |-> CalculateVolumeMetrics(after, rws),
              anomalies |-> DetectTrafficAnomalies(after, rws),
              processed_at |-> clock]

\* process_traffic_data(traffic_data)
ProcessTrafficData ==
    /\ calls < MaxCalls
    /\ calls' = calls + 1
    /\ now' = now + 1
    /\ report' = ProcessResult(columns, rows, now)
    /\ prevReport' = report
    /\ IF IsEmpty(columns, rows)
       THEN UNCHANGED <<columns, index, tsDtype>>
       ELSE /\ columns' = ColumnsAfterTimeMetrics(columns)
            /\ index' = IF "timestamp" \in columns THEN "timestamp" ELSE index
            /\ tsDtype' = IF "timestamp" \in columns THEN "datetime64" ELSE tsDtype
    /\ lastCall' = [op |-> "process_traffic_data", arg |-> "None"]
    /\ given' = Frame
    /\ raised' = "none"
    /\ UNCHANGED <<rows, patterns, args, returned>>

\* ---------------------------------------------------- AttackPatternAnalyzer
\* confidences are in thousandths
Milli == 1000

\* _load_known_patterns(): the catalog, in dictionary order
KnownPatterns ==
    <<[name |-> "syn_flood", description |-> "TCP SYN flood attack pattern"],
      [name |-> "udp_flood", description |-> "UDP flood attack pattern"],
      [name |-> "http_flood", description |-> "HTTP flood attack pattern"],
      [name |-> "amplification", description |-> "DNS/NTP amplification attack"]>>

PatternNames == {KnownPatterns[i].name : i \in 1..Len(KnownPatterns)}

\* values of the attack_type argument: None, '', catalog names, another name
AttackTypes == {"None", ""} \cup PatternNames \cup {"slowloris"}

\* _analyze_syn_flood_pattern(data)
AnalyzeSynFloodPattern(cols, rws) ==
    LET source_counts == ValueCounts(rws)
    IN  (IF NRows(rws) > 1000 THEN <<700>> ELSE <<>>)
        \o (IF "source_ip" \in cols /\ source_counts # <<>>
            THEN (IF 10 * source_counts[1].count > 3 * NRows(rws)
                  THEN <<800>> ELSE <<300>>)
            ELSE <<>>)

\* the many-sources factor from 100 unique sources on
AnalyzeUdpFloodPatternAs(cols, rws) ==
    (IF NRows(rws) > 500 THEN <<600>> ELSE <<>>)
    \o (IF "source_ip" \in cols
        THEN (IF Cardinality(SrcSet(rws)) >= 100 THEN <<700>> ELSE <<400>>)
        ELSE <<>>)

\* the few-sources factor lowered to 0.2
AnalyzeUdpFloodPatternFew(cols, rws) ==
    (IF NRows(rws) > 500 THEN <<600>> ELSE <<>>)
    \o (IF "source_ip" \in cols
        THEN (IF Cardinality(SrcSet(rws)) > 100 THEN <<700>> ELSE <<200>>)
        ELSE <<>>)

\* _analyze_udp_flood_pattern(data)
AnalyzeUdpFloodPattern(cols, rws) ==
    (IF NRows(rws) > 500 THEN <<600>> ELSE <<>>)
    \o (IF "source_ip" \in cols
        THEN (IF Cardinality(SrcSet(rws)) > 100 THEN <<700>> ELSE <<400>>)
        ELSE <<>>)

\* the factor of a very high request volume raised to 0.9
AnalyzeHttpFloodPatternAs(cols, rws) ==
    IF NRows(rws) > 2000 THEN <<900>>
    ELSE IF NRows(rws) > 800 THEN <<500>>
    ELSE <<200>>

\* _analyze_http_flood_pattern(data)
AnalyzeHttpFloodPattern(cols, rws) ==
    IF NRows(rws) > 2000 THEN <<800>>
    ELSE IF NRows(rws) > 800 THEN <<500>>
    ELSE <<200>>

\* _analyze_amplification_pattern(data)
AnalyzeAmplificationPattern(cols, rws) ==
    IF "bytes" \in cols
    THEN (IF SumBytes(rws) > 1000 * NRows(rws) THEN <<700>> ELSE <<300>>)
    ELSE <<>>

\* the dispatch on pattern_name in _analyze_specific_pattern
ConfidenceFactors(cols, rws, pattern_name) ==
    IF pattern_name = "syn_flood" THEN AnalyzeSynFloodPattern(cols, rws)
    ELSE IF pattern_name = "udp_flood" THEN AnalyzeUdpFloodPattern(cols, rws)
    ELSE IF pattern_name = "http_flood" THEN AnalyzeHttpFloodPattern(cols, rws)
    ELSE IF pattern_name = "amplification"
         THEN AnalyzeAmplificationPattern(cols, rws)
    ELSE <<>>

RECURSIVE SumSeq(_)
SumSeq(q) == IF q = <<>> THEN 0 ELSE Head(q) + SumSeq(Tail(q))

\* the factors summed but not divided by their number
MeanOfAs(q) == SumSeq(q)

\* np.mean(confidence_factors)
MeanOf(q) == SumSeq(q) \div Len(q)

\* the tiers with >= in place of >
SeverityOfAs(confidence) ==
    IF confidence >= 800 THEN "high"
    ELSE IF confidence >= 500 THEN "medium"
    ELSE "low"

\* the severity tier of a confidence
SeverityOf(confidence) ==
    IF confidence > 800 THEN "high"
    ELSE IF confidence > 500 THEN "medium"
    ELSE "low"

\* self.known_patterns.get(pattern_name, {}).get('description', '')
DescriptionOf(pattern_name) ==
    IF pattern_name \in PatternNames
    THEN (CHOOSE i \in 1..Len(KnownPatterns) :
              KnownPatterns[i].name = pattern_name)
    ELSE 0

\* _analyze_specific_pattern(data, pattern_name)
AnalyzeSpecificPattern(cols, rws, pattern_name) ==
    LET known == pattern_name \in PatternNames
        result == [pattern_name |-> pattern_name,
                   description |-> IF known
                                   THEN KnownPatterns[DescriptionOf(pattern_name)].description
                                   ELSE "",
                   confidence |-> 0,
                   indicators |-> <<>>,
                   severity |-> "low"]
        confidence_factors == ConfidenceFactors(cols, rws, pattern_name)
        confidence == IF confidence_factors # <<>>
                      THEN MeanOf(confidence_factors) ELSE 0
    IN  IF ~known \/ IsEmpty(cols, rws) THEN result
        ELSE [result EXCEPT
                 !.confidence = confidence,
                 !.indicators = [i \in 1..Len(confidence_factors) |->
                                    [factor |-> i,
                                     value |-> RoundDiv(confidence_factors[i], 10)]],
                 !.severity = SeverityOf(confidence)]

\* the fixed mitigation lists of _generate_recommendations
Mitigations(pattern_name) ==
    IF pattern_name = "syn_flood"
    THEN {"Enable SYN cookies on servers",
          "Configure SYN flood protection on firewalls",
          "Implement connection rate limiting"}
    ELSE IF pattern_name = "udp_flood"
    THEN {"Implement UDP rate limiting",
          "Configure ingress filtering",
          "Enable UDP flood protection"}
    ELSE IF pattern_name = "http_flood"
    THEN {"Enable HTTP request rate limiting",
          "Deploy Web Application Firewall (WAF)",
          "Implement CAPTCHA challenges for suspicious sources"}
    ELSE IF pattern_name = "amplification"
    THEN {"Implement BCP38 ingress filtering",
          "Configure response rate limiting on public services",
          "Monitor for source IP spoofing"}
    ELSE {}

GeneralRecommendations ==
    {"Activate enhanced monitoring and alerting",
     "Consider enabling DDoS protection services",
     "Document incident for future analysis"}

NoPatternRecommendation ==
    {"No specific attack patterns detected - continue normal monitoring"}

\* the early return taken on the filtered names, not on the detected list
GenerateRecommendationsAs(detected_patterns) ==
    LET pattern_names ==
            {detected_patterns[i].pattern_name :
                i \in {j \in 1..Len(detected_patterns) :
                          detected_patterns[j].confidence > 500}}
    IN  IF pattern_names = {} THEN NoPatternRecommendation
        ELSE UNION {Mitigations(p) : p \in pattern_names \cap PatternNames}
                 \cup GeneralRecommendations

\* a match contributing its mitigations from confidence 0.5 on
ContributesAs(p) == p.confidence >= 500

\* 'if p['confidence'] > 0.5' of the pattern_names comprehension
Contributes(p) == p.confidence > 500

\* _generate_recommendations(detected_patterns), as the set of its entries
GenerateRecommendations(detected_patterns) ==
    IF detected_patterns = <<>> THEN NoPatternRecommendation
    ELSE LET pattern_names ==
                 {detected_patterns[i].pattern_name :
                     i \in {j \in 1..Len(detected_patterns) :
                               Contributes(detected_patterns[j])}}
         IN  UNION {Mitigations(p) : p \in pattern_names \cap PatternNames}
                 \cup GeneralRecommendations

\* a match kept from confidence 0.3 on
LikelyMatchAs(pattern_result) == pattern_result.confidence >= 300

\* 'if pattern_result['confidence'] > 0.3:  # Only include likely matches'
LikelyMatch(pattern_result) == pattern_result.confidence > 300

\* the scan over self.known_patterns.keys() keeping the likely matches
RECURSIVE ScanPatterns(_, _, _)
ScanPatterns(cols, rws, i) ==
    IF i > Len(KnownPatterns) THEN <<>>
    ELSE LET pattern_result == AnalyzeSpecificPattern(cols, rws, KnownPatterns[i].name)
         IN  (IF LikelyMatch(pattern_result) THEN <<pattern_result>> ELSE <<>>)
                 \o ScanPatterns(cols, rws, i + 1)

\* 'if attack_type:' - None and '' select the full scan
Truthy(attack_type) == attack_type \notin {"None", ""}

\* the value analyze_attack_pattern returns
AnalyzeResult(cols, rws, attack_type) ==
    LET results == [detected_patterns |-> <<>>,
                    confidence_scores |-> EmptyDict,
                    recommendations |-> {},
                    attack_characteristics |-> EmptyDict]
        detected == IF Truthy(attack_type)
                    THEN <<AnalyzeSpecificPattern(cols, rws, attack_type)>>
                    ELSE ScanPatterns(cols, rws, 1)
    IN  IF IsEmpty(cols, rws) THEN results
        ELSE [results EXCEPT
                 !.detected_patterns = detected,
                 !.recommendations = GenerateRecommendations(detected)]

\* analyze_attack_pattern(traffic_data, attack_type)
AnalyzeAttackPattern(attack_type) ==
    /\ patterns' = AnalyzeResult(columns, rows, attack_type)
    /\ lastCall' = [op |-> "analyze_attack_pattern", arg |-> attack_type]
    /\ given' = Frame
    /\ raised' = "none"
    /\ UNCHANGED <<columns, index, tsDtype, rows, now, calls, report, prevReport,
                   args, returned>>

\* -------------------------------------------------------- MetricsCalculator
\* scores are counted in halves: 0.5 is 1 and 4.0 is 8
Halves(score) == 2 * score

\* 'Volume impact score (0-4)': the ratio is compared without dividing
VolumeScoreAs(traffic_volume, baseline_volume) ==
    IF baseline_volume <= 0 THEN Halves(0)
    ELSE IF traffic_volume >= 10 * baseline_volume THEN Halves(4)
    ELSE IF traffic_volume > 5 * baseline_volume THEN Halves(3)
    ELSE IF traffic_volume > 2 * baseline_volume THEN Halves(2)
    ELSE IF 2 * traffic_volume > 3 * baseline_volume THEN Halves(1)
    ELSE Halves(0)

VolumeScore(traffic_volume, baseline_volume) ==
    IF baseline_volume <= 0 THEN Halves(0)      \* volume_ratio = 1
    ELSE IF traffic_volume > 10 * baseline_volume THEN Halves(4)
    ELSE IF traffic_volume > 5 * baseline_volume THEN Halves(3)
    ELSE IF traffic_volume > 2 * baseline_volume THEN Halves(2)
    ELSE IF 2 * traffic_volume > 3 * baseline_volume THEN Halves(1)
    ELSE Halves(0)

\* 'Duration impact score (0-3)'
DurationScore(duration_minutes) ==
    IF duration_minutes > 240 THEN Halves(3)
    ELSE IF duration_minutes > 60 THEN Halves(2)
    ELSE IF duration_minutes > 15 THEN Halves(1)
    ELSE 1                                      \* 0.5

\* 'Service impact score (0-3)'
ServiceScore(affected_services) ==
    IF affected_services > 5 THEN Halves(3)
    ELSE IF affected_services > 2 THEN Halves(2)
    ELSE IF affected_services > 0 THEN Halves(1)
    ELSE Halves(0)

\* the levels one point lower
GetSeverityLevelAs(score) ==
    IF score >= Halves(7) THEN "Critical"
    ELSE IF score >= Halves(5) THEN "High"
    ELSE IF score >= Halves(3) THEN "Medium"
    ELSE IF score >= Halves(1) THEN "Low"
    ELSE "Minimal"

\* _get_severity_level(score)
GetSeverityLevel(score) ==
    IF score >= Halves(8) THEN "Critical"
    ELSE IF score >= Halves(6) THEN "High"
    ELSE IF score >= Halves(4) THEN "Medium"
    ELSE IF score >= Halves(2) THEN "Low"
    ELSE "Minimal"

\* the value calculate_attack_severity returns
AttackSeverity(traffic_volume, baseline_volume, duration_minutes, affected_services) ==
    LET volume_score == VolumeScore(traffic_volume, baseline_volume)
        duration_score == DurationScore(duration_minutes)
        service_score == ServiceScore(affected_services)
        total_score == volume_score + duration_score + service_score
    IN  [overall_severity |-> total_score,
         volume_impact |-> volume_score,
         duration_impact |-> duration_score,
         service_impact |-> service_score,
         severity_level |-> GetSeverityLevel(total_score)]

\* calculate_attack_severity(traffic_volume, baseline_volume,
\*                           duration_minutes, affected_services)
CalculateAttackSeverity ==
    \E tv \in TrafficVolumes, bv \in BaselineVolumes,
       dm \in DurationMinutes, sv \in AffectedServices :
        /\ args' = [traffic_volume |-> tv, baseline_volume |-> bv,
                    duration_minutes |-> dm, affected_services |-> sv]
        /\ returned' = AttackSeverity(tv, bv, dm, sv)
        /\ lastCall' = [op |-> "calculate_attack_severity", arg |-> "None"]
        /\ raised' = "none"
        /\ UNCHANGED <<columns, index, tsDtype, rows, now, calls, report,
                       prevReport, patterns, given>>

\* money is counted in hundredths; the products below are exact for the
\* arguments drawn
Percent == 100

\* the partial-impact formula applied to a complete outage as well
DirectLossAs(hourly_revenue, outage_duration_hours, performance_degradation_percent) ==
    hourly_revenue * outage_duration_hours * performance_degradation_percent

\* 'Direct revenue loss'
DirectLoss(hourly_revenue, outage_duration_hours, performance_degradation_percent) ==
    IF performance_degradation_percent >= 100
    THEN hourly_revenue * outage_duration_hours * Percent
    ELSE hourly_revenue * outage_duration_hours
             * performance_degradation_percent

\* the value calculate_business_impact returns
BusinessImpact(hourly_revenue, outage_duration_hours, performance_degradation_percent, reputation_impact_factor) ==
    LET direct_loss == DirectLoss(hourly_revenue, outage_duration_hours,
                                  performance_degradation_percent)
        recovery_costs == (direct_loss * 15) \div Percent
        opportunity_cost == (direct_loss * 25) \div Percent
        reputation_damage == (direct_loss * reputation_impact_factor)
                                 \div Percent
        total_impact == direct_loss + recovery_costs + opportunity_cost
                            + reputation_damage
    IN  [direct_revenue_loss |-> direct_loss,
         recovery_costs |-> recovery_costs,
         opportunity_cost |-> opportunity_cost,
         reputation_damage |-> reputation_damage,
         total_business_impact |-> total_impact,
         \* total_impact / max(outage_duration_hours, 0.1)
         impact_per_hour |-> IF outage_duration_hours >= 1
                             THEN total_impact \div outage_duration_hours
                             ELSE total_impact * 10]

\* calculate_business_impact(hourly_revenue, outage_duration_hours,
\*     performance_degradation_percent, reputation_impact_factor=0.3)
CalculateBusinessImpact ==
    \E hr \in HourlyRevenues, oh \in OutageHours,
       dp \in DegradationPercents, rf \in ReputationFactors :
        /\ args' = [hourly_revenue |-> hr, outage_duration_hours |-> oh,
                    performance_degradation_percent |-> dp,
                    reputation_impact_factor |-> rf]
        /\ returned' = BusinessImpact(hr, oh, dp, rf)
        /\ lastCall' = [op |-> "calculate_business_impact", arg |-> "None"]
        /\ raised' = "none"
        /\ UNCHANGED <<columns, index, tsDtype, rows, now, calls, report,
                       prevReport, patterns, given>>

\* the three metrics compared and the names of their improvements
MetricNames == {"traffic_volume", "response_time", "error_rate"}

ImprovementName(metric) ==
    CASE metric = "traffic_volume" -> "traffic_reduction"
      [] metric = "response_time" -> "response_time_improvement"
      [] metric = "error_rate" -> "error_rate_reduction"

\* the percentage left as computed, without max(0, min(100, ...))
ImprovementAs(baseline, current) ==
    RoundDiv((baseline - current) * Percent * One, baseline)

\* max(0, min(100, ((baseline - current) / baseline) * 100)), baseline > 0
Improvement(baseline, current) ==
    LET percentage == RoundDiv((baseline - current) * Percent * One,
                               baseline)
    IN  IF percentage > Percent * One THEN Percent * One
        ELSE IF percentage < 0 THEN 0
        ELSE percentage

\* the metrics for which an improvement is computed
Compared(baseline_metrics, current_metrics) ==
    {m \in MetricNames :
        /\ m \in DOMAIN baseline_metrics
        /\ m \in DOMAIN current_metrics
        /\ baseline_metrics[m] > 0}

\* the value calculate_mitigation_effectiveness returns
MitigationEffectiveness(baseline_metrics, current_metrics) ==
    LET compared == Compared(baseline_metrics, current_metrics)
        value == [m \in compared |->
                     Improvement(baseline_metrics[m], current_metrics[m])]
        names == {ImprovementName(m) : m \in compared}
        effectiveness ==
            [k \in names |->
                value[CHOOSE m \in compared : ImprovementName(m) = k]]
        \* np.mean(list(effectiveness.values()))
        overall == RoundDiv(SumOver(value, compared), Cardinality(compared))
    IN  IF compared = {} THEN EmptyDict
        ELSE [k \in names \cup {"overall_effectiveness"} |->
                 IF k = "overall_effectiveness" THEN overall
                 ELSE effectiveness[k]]

\* the dictionaries over some of the three metrics
MetricDicts ==
    UNION {[present -> MetricValues] : present \in SUBSET MetricNames}

\* calculate_mitigation_effectiveness(baseline_metrics, current_metrics)
CalculateMitigationEffectiveness ==
    \E baseline_metrics \in MetricDicts, current_metrics \in MetricDicts :
        /\ args' = [baseline_metrics |-> baseline_metrics,
                    current_metrics |-> current_metrics]
        /\ returned' = MitigationEffectiveness(baseline_metrics,
                                               current_metrics)
        /\ lastCall' = [op |-> "calculate_mitigation_effectiveness",
                        arg |-> "None"]
        /\ raised' = "none"
        /\ UNCHANGED <<columns, index, tsDtype, rows, now, calls, report,
                       prevReport, patterns, given>>

\* ------------------------------------------------- extract_traffic_features
\* .dt.hour, .dt.dayofweek and .dt.minute of a timestamp given in minutes;
\* minute 0 is midnight of a Monday
HourOf(ts) == (ts \div 60) % 24
DayOfWeekOf(ts) == (ts \div 1440) % 7
MinuteOf(ts) == ts % 60

\* bytes.std() is NaN for one row and 0 when all sizes are equal: in both
\* cases (bytes - mean) / std is NaN in every row
AllSizesEqual(rws) == \A i, j \in 1..Len(rws) : rws[i].bytes = rws[j].bytes

\* request_size_normalized, kept as the sign of bytes - bytes.mean()
SizeNormalized(rws, bytes) ==
    LET deviation == NRows(rws) * bytes - SumBytes(rws)
    IN  IF AllSizesEqual(rws) THEN NaN
        ELSE IF deviation > 0 THEN 1
        ELSE IF deviation < 0 THEN -1
        ELSE 0

\* the feature columns assigned for the columns of the batch
FeatureColumns(cols) ==
    (IF "timestamp" \in cols
     THEN {"hour", "day_of_week", "minute", "requests_per_minute"} ELSE {})
    \cup (IF "source_ip" \in cols
          THEN {"source_ip_frequency", "source_ip_entropy"} ELSE {})
    \cup (IF "bytes" \in cols
          THEN {"request_size", "request_size_normalized"} ELSE {})

\* the features of the rows of one group; a column not assigned reads 0
FeatureRow(cols, rws, r) ==
    LET has_ts == "timestamp" \in cols
        has_src == "source_ip" \in cols
        has_bytes == "bytes" \in cols
    IN  [n |-> r.n,
         hour |-> IF has_ts THEN HourOf(r.ts) ELSE 0,
         day_of_week |-> IF has_ts THEN DayOfWeekOf(r.ts) ELSE 0,
         minute |-> IF has_ts THEN MinuteOf(r.ts) ELSE 0,
         source_ip_frequency |-> IF has_src THEN SrcCount(rws, r.src) ELSE 0,
         source_ip_entropy |->
             IF has_src THEN -PLogP(SrcCount(rws, r.src), NRows(rws)) ELSE 0,
         request_size |-> IF has_bytes THEN r.bytes ELSE 0,
         request_size_normalized |->
             IF has_bytes THEN SizeNormalized(rws, r.bytes) ELSE 0,
         requests_per_minute |-> IF has_ts THEN WinCount(rws, r.ts) ELSE 0]

\* pd.DataFrame(): no column and no row
EmptyFrame == [columns |-> {}, rows |-> <<>>]

\* the value extract_traffic_features returns: an empty frame for an empty
\* batch; otherwise the frame takes its index, and so its rows, from the
\* first column assigned to it, and stays without rows when none is assigned
FeatureTable(cols, rws) ==
    IF IsEmpty(cols, rws) THEN EmptyFrame
    ELSE IF FeatureColumns(cols) = {} THEN EmptyFrame
    ELSE [columns |-> FeatureColumns(cols),
          rows |-> [i \in 1..Len(rws) |-> FeatureRow(cols, rws, rws[i])]]

\* extract_traffic_features(traffic_data)
ExtractTrafficFeatures ==
    /\ returned' = FeatureTable(columns, rows)
    /\ tsDtype' = IF ~IsEmpty(columns, rows) /\ "timestamp" \in columns
                  THEN "datetime64" ELSE tsDtype
    /\ lastCall' = [op |-> "extract_traffic_features", arg |-> "None"]
    /\ given' = Frame
    /\ raised' = "none"
    /\ UNCHANGED <<columns, index, rows, now, calls, report, prevReport,
                   patterns, args>>

\* ------------------------------------------- generate_attack_simulation_data
\* floor(10^6 * abs(np.sin(time_factor * np.pi))) for time_factor = m / 60
SinMicro ==
    << 0, 52335, 104528, 156434, 207911, 258819, 309016, 358367, 406736,
       453990, 499999, 544639, 587785, 629320, 669130, 707106, 743144,
       777145, 809016, 838670, 866025, 891006, 913545, 933580, 951056,
       965925, 978147, 987688, 994521, 998629, 1000000, 998629, 994521,
       987688, 978147, 965925, 951056, 933580, 913545, 891006, 866025,
       838670, 809016, 777145, 743144, 707106, 669130, 629320, 587785,
       544639, 499999, 453990, 406736, 358367, 309016, 258819, 207911,
       156434, 104528, 52335, 0 >>

Micro == 1000000

\* np.sin(np.pi / 6) is the double just below 0.5; with intensity 1 the sum
\* 1 + intensity * sin rounds up to the double 1.5
PulseSumRoundsUp(intensity, m) == intensity = 1 /\ SinMicro[m + 1] = 499999

\* the minutes of time_range: start_time, start_time + 1 minute, ..., up to
\* end_time, which lies duration_hours (and a few microseconds) after the start
TimeRange(duration_hours) == 0..(60 * duration_hours)

\* requests_this_minute = int(base_requests_per_minute * current_multiplier)
\* for the timestamp m minutes after start_time; duration_hours > 0 where
\* the type is 'escalating'
RequestsThisMinute(attack_type, duration_hours, intensity, m) ==
    LET base_requests_per_minute == 100
    IN  IF attack_type = "escalating"
        THEN (base_requests_per_minute * 60 * duration_hours
                + base_requests_per_minute * (intensity - 1) * m)
             \div (60 * duration_hours)
        ELSE IF attack_type = "pulsing"
        THEN IF PulseSumRoundsUp(intensity, m)
             THEN (base_requests_per_minute * 3) \div 2
             ELSE (base_requests_per_minute
                     * (Micro + intensity * SinMicro[m + 1])) \div Micro
        ELSE base_requests_per_minute * intensity

\* the ranges np.random.randint draws the source address and the size from,
\* as the lowest and the highest value of each
SimSources(attack_type) ==
    IF attack_type \in {"syn_flood", "concentrated"} THEN {1, 36} ELSE {1, 1000}

SimSizes(attack_type) ==
    IF attack_type = "udp_flood" THEN {50, 199}
    ELSE IF attack_type = "amplification" THEN {1000, 4999}
    ELSE {200, 1499}

\* the rows appended for the timestamp m: row i carries timestamp +
\* timedelta(seconds=i), so rows 60 j .. 60 j + 59 lie in minute m + j
RowsOfMinute(requests, m, src, bytes) ==
    [j \in 1..((requests + 59) \div 60) |->
        [ts |-> m + j - 1, src |-> src, bytes |-> bytes,
         n |-> Min(60, requests - 60 * (j - 1))]]

\* simulation_data after the loop over the timestamps lo..hi; the requests of
\* even timestamps draw the source a, those of odd timestamps the source b
RECURSIVE SimulationData(_, _, _, _, _, _, _, _)
SimulationData(attack_type, duration_hours, intensity, a, b, bytes, lo, hi) ==
    IF lo > hi THEN <<>>
    ELSE IF lo = hi
    THEN RowsOfMinute(RequestsThisMinute(attack_type, duration_hours, intensity, lo),
                      lo, IF lo % 2 = 0 THEN a ELSE b, bytes)
    ELSE LET mid == (lo + hi) \div 2
         IN  SimulationData(attack_type, duration_hours, intensity, a, b, bytes, lo, mid)
             \o SimulationData(attack_type, duration_hours, intensity, a, b, bytes, mid + 1, hi)

SimCols == {"timestamp", "source_ip", "bytes", "attack_type", "intensity"}

\* pd.DataFrame(simulation_data): the columns are the keys of the rows
SimulationFrame(rws) ==
    [columns |-> IF rws = <<>> THEN {} ELSE SimCols, rows |-> rws]

\* generate_attack_simulation_data(attack_type, duration_hours, intensity)
GenerateAttackSimulationData ==
    \E attack_type \in SimulatedTypes, duration_hours \in SimDurations,
       intensity \in SimIntensities :
      \E a \in SimSources(attack_type), b \in SimSources(attack_type),
         bytes \in SimSizes(attack_type) :
        /\ args' = [attack_type |-> attack_type,
                    duration_hours |-> duration_hours,
                    intensity |-> intensity]
        /\ IF attack_type = "escalating" /\ duration_hours = 0
           THEN /\ raised' = "ZeroDivisionError"
                /\ returned' = NoResult
           ELSE /\ raised' = "none"
                /\ returned' = SimulationFrame(
                       SimulationData(attack_type, duration_hours, intensity,
                                      a, b, bytes, 0, 60 * duration_hours))
        /\ lastCall' = [op |-> "generate_attack_simulation_data",
                        arg |-> attack_type]
        /\ given' = Frame
        /\ UNCHANGED <<columns, index, tsDtype, rows, now, calls, report,
                       prevReport, patterns>>

\* ------------------------------------------------------------- the batches
\* a group of rows of a frame with the given columns: any minute, any source
TrafficGroups(cols) ==
    [ts : IF "timestamp" \in cols THEN Minutes ELSE {0},
     src : IF "source_ip" \in cols THEN Sources ELSE {0},
     bytes : IF "bytes" \in cols THEN {100} ELSE {0},
     n : Mults]

\* a group of rows of one minute and one source: any size
SizeGroups(cols) ==
    [ts : {0},
     src : IF "source_ip" \in cols THEN {1} ELSE {0},
     bytes : IF "bytes" \in cols THEN Sizes ELSE {0},
     n : Mults]

\* general family: up to MaxRuns groups, varying in time and source or in size
GeneralBatches(cols) ==
    UNION {[1..k -> TrafficGroups(cols)] \cup [1..k -> SizeGroups(cols)] :
              k \in 0..MaxRuns}

\* even family: k sources with m rows each
EvenBatches(cols) ==
    {[i \in 1..k |->
         [ts |-> 0,
          src |-> IF "source_ip" \in cols THEN i ELSE 0,
          bytes |-> IF "bytes" \in cols THEN 100 ELSE 0,
          n |-> m]] : k \in 1..MaxSources, m \in EvenMults}

\* a column of a batch that none of the operations reads
OtherCols == {"attack_type"}

\* wide family: more sources than the many-sources limit of udp_flood or not
WideBatches(cols) ==
    {[i \in 1..k |->
         [ts |-> 0,
          src |-> IF "source_ip" \in cols THEN i ELSE 0,
          bytes |-> IF "bytes" \in cols THEN 100 ELSE 0,
          n |-> m]] : k \in WideSources, m \in WideMults}

\* tiered family: k sources, the first a with 3 rows each, the next b with 2
\* rows each and the others with 1 row; of the batches of more than 12
\* sources only the even one and the one with a single larger source
TieredBatches(cols) ==
    {[i \in 1..t[1] |->
         [ts |-> 0,
          src |-> i,
          bytes |-> IF "bytes" \in cols THEN 100 ELSE 0,
          n |-> IF i <= t[2] THEN 3 ELSE IF i <= t[2] + t[3] THEN 2 ELSE 1]] :
       t \in {u \in TierSources \X (0..12) \X (0..12) :
                 /\ u[2] + u[3] <= u[1]
                 /\ u[1] > 12 => (u[2] <= 1 /\ u[3] = 0)}}

Init ==
    /\ columns \in SUBSET Cols
    /\ rows \in GeneralBatches(columns) \cup EvenBatches(columns)
    /\ index = "range"
    /\ tsDtype = "object"
    /\ now = 0
    /\ calls = 0
    /\ report = NoResult
    /\ prevReport = NoResult
    /\ patterns = NoResult
    /\ lastCall = [op |-> "none", arg |-> "None"]
    /\ given = Frame
    /\ raised = "none"
    /\ args = NoResult
    /\ returned = NoResult

Next ==
    \/ ProcessTrafficData
    \/ \E attack_type \in AttackTypes : AnalyzeAttackPattern(attack_type)

Spec == Init /\ [][Next]_vars

\* ------------------------------------------ the analyzer on its own batches
\* AttackPatternAnalyzer() and a batch of any family, the wide one included
InitAnalyzer ==
    /\ columns \in SUBSET Cols
    /\ rows \in GeneralBatches(columns) \cup EvenBatches(columns)
                \cup WideBatches(columns)
    /\ index = "range"
    /\ tsDtype = "object"
    /\ now = 0
    /\ calls = 0
    /\ report = NoResult
    /\ prevReport = NoResult
    /\ patterns = NoResult
    /\ lastCall = [op |-> "none", arg |-> "None"]
    /\ given = Frame
    /\ raised = "none"
    /\ args = NoResult
    /\ returned = NoResult

NextAnalyzer ==
    \E attack_type \in AttackTypes : AnalyzeAttackPattern(attack_type)

SpecAnalyzer == InitAnalyzer /\ [][NextAnalyzer]_vars

\* ----------------------------------------- the static calculator functions
\* MetricsCalculator has no state: its functions are called on their own
InitCalculator ==
    /\ columns = {}
    /\ rows = <<>>
    /\ index = "range"
    /\ tsDtype = "object"
    /\ now = 0
    /\ calls = 0
    /\ report = NoResult
    /\ prevReport = NoResult
    /\ patterns = NoResult
    /\ lastCall = [op |-> "none", arg |-> "None"]
    /\ given = Frame
    /\ raised = "none"
    /\ args = NoResult
    /\ returned = NoResult

\* a call reads nothing of the state, so every call is a first call
FirstCall == lastCall.op = "none"

NextCalculator ==
    \/ FirstCall /\ CalculateAttackSeverity
    \/ FirstCall /\ CalculateBusinessImpact
    \/ FirstCall /\ CalculateMitigationEffectiveness

SpecCalculator == InitCalculator /\ [][NextCalculator]_vars

\* ------------------------------------------------- the feature extraction
\* a batch of the general or even family, with or without another column
InitFeatures ==
    /\ columns \in SUBSET (Cols \cup OtherCols)
    /\ rows \in GeneralBatches(columns) \cup EvenBatches(columns)
    /\ index = "range"
    /\ tsDtype = "object"
    /\ now = 0
    /\ calls = 0
    /\ report = NoResult
    /\ prevReport = NoResult
    /\ patterns = NoResult
    /\ lastCall = [op |-> "none", arg |-> "None"]
    /\ given = Frame
    /\ raised = "none"
    /\ args = NoResult
    /\ returned = NoResult

NextFeatures == ExtractTrafficFeatures

SpecFeatures == InitFeatures /\ [][NextFeatures]_vars

\* ------------------------------------- the processor on source distributions
\* DoSDataProcessor() and a batch with a source field, of the tiered family
InitSources ==
    /\ columns \in {c \in SUBSET Cols : "source_ip" \in c}
    /\ rows \in TieredBatches(columns)
    /\ index = "range"
    /\ tsDtype = "object"
    /\ now = 0
    /\ calls = 0
    /\ report = NoResult
    /\ prevReport = NoResult
    /\ patterns = NoResult
    /\ lastCall = [op |-> "none", arg |-> "None"]
    /\ given = Frame
    /\ raised = "none"
    /\ args = NoResult
    /\ returned = NoResult

NextSources == ProcessTrafficData

SpecSources == InitSources /\ [][NextSources]_vars

\* ----------------------------------------- the processor before the others
\* one batch handed to process_traffic_data or not, and then to the analyzer
\* or to the feature extraction
NoCallYet == lastCall.op \in {"none", "process_traffic_data"}

NextPipeline ==
    \/ FirstCall /\ ProcessTrafficData
    \/ NoCallYet /\ ExtractTrafficFeatures
    \/ NoCallYet /\ \E attack_type \in AttackTypes : AnalyzeAttackPattern(attack_type)

SpecPipeline == Init /\ [][NextPipeline]_vars

\* --------------------------------------------------- the simulation generator
\* the generator takes no batch: it is called on its own
NextSimulation == FirstCall /\ GenerateAttackSimulationData

SpecSimulation == InitCalculator /\ [][NextSimulation]_vars

\* ------------------------------------------------------------ properties
ProcessCalled == lastCall.op = "process_traffic_data"
AnalyzeCalled == lastCall.op = "analyze_attack_pattern"

\* the report carries metrics (it is not the error dictionary)
HasMetrics(r) == "anomalies" \in DOMAIN r

ErrorResult == [error |-> "No traffic data provided"]

UnknownPatternCall ==
    /\ AnalyzeCalled
    /\ Truthy(lastCall.arg)
    /\ lastCall.arg \notin PatternNames
    /\ ~IsEmpty(given.columns, given.rows)

C3_BatchUnchanged ==
    ProcessCalled => /\ columns = given.columns
                     /\ rows = given.rows

\* everything of two reports but the processed_at stamp agrees
SameMetrics(r1, r2) ==
    IF HasMetrics(r1) /\ HasMetrics(r2)
    THEN /\ r1.time_metrics = r2.time_metrics
         /\ r1.source_metrics = r2.source_metrics
         /\ r1.volume_metrics = r2.volume_metrics
         /\ r1.anomalies = r2.anomalies
    ELSE r1 = r2

\* C4: two calls of process_traffic_data in a row on the same batch return
\* the same time, source and volume metrics and the same anomaly block.
C4_SameReportTwice ==
    (ProcessCalled /\ calls = 2) => SameMetrics(prevReport, report)

\* the 1-minute windows of rws whose count exceeds mean + 3 * stddev
WindowsOverThreshold(rws) ==
    {t \in Windows(rws) :
        ExceedsThreshold(ResampleSize(rws), ResampleSize(rws)[t])}

\* C5: for a batch with timestamps the report's high_volume_periods are
\* exactly the 1-minute windows whose request count exceeds mean + 3 * stddev
\* of the batch's per-window counts.
C5_HighVolumePeriods ==
    (ProcessCalled /\ "timestamp" \in given.columns /\ NRows(given.rows) > 0)
        => /\ HasMetrics(report)
           /\ {report.anomalies.high_volume_periods[i].timestamp :
                   i \in DOMAIN report.anomalies.high_volume_periods}
                  = WindowsOverThreshold(given.rows)

\* the score of the claimed formula for a frame and its anomaly block
ClaimedScore(cols, rws, anomalies) ==
    LET source_counts == IF "source_ip" \in cols THEN ValueCounts(rws) ELSE <<>>
        unique == Len(source_counts)
        normalized_entropy ==
            IF unique <= 1 THEN 0
            ELSE (CalculateEntropy(source_counts) * One) \div Log2Fix(unique)
    IN  Min(10 * One,
            (One \div 2) * Min(6, Len(anomalies.high_volume_periods))
            + (IF anomalies.source_concentration THEN 3 * One ELSE 0)
            + 2 * (One - normalized_entropy)
            + (IF NRows(rws) > 1000 THEN 2 * One ELSE 0))

\* C6: the anomaly score equals min(10, 0.5 * min(6, high-volume windows)
\* + 3.0 if concentrated + 2.0 * (1 - normalized entropy) + 2.0 if the batch
\* has more than 1000 rows), the normalized entropy being 0 when there is at
\* most one source.  Stated for the batches that carry source ids.
C6_ScoreFormula ==
    (ProcessCalled /\ HasMetrics(report) /\ "source_ip" \in given.columns)
        => report.anomalies.anomaly_score
               = ClaimedScore(given.columns, given.rows, report.anomalies)

\* C7: the anomaly score returned for any batch lies in [0, 10].
C7_ScoreInRange ==
    (ProcessCalled /\ HasMetrics(report))
        => /\ report.anomalies.anomaly_score >= 0
           /\ report.anomalies.anomaly_score <= 10 * One

\* a batch of 1500 observations, 1400 of them from one source, was processed
C8_Scenario ==
    /\ ProcessCalled
    /\ "source_ip" \in given.columns
    /\ NRows(given.rows) = 1500
    /\ ValueCounts(given.rows)[1].count = 1400

\* C8 (as amended): for a batch of 1500 observations with 1400 from one
\* source the report has source_concentration = true and an anomaly score of
\* at least 5 and below 10: the cap is not reached.
C8_ConcentratedBelowCap ==
    C8_Scenario
        => /\ HasMetrics(report)
           /\ report.anomalies.source_concentration = TRUE
           /\ report.anomalies.anomaly_score >= 5 * One
           /\ report.anomalies.anomaly_score < 10 * One

C8_Witness ==
    /\ C8_Scenario
    /\ HasMetrics(report)
    /\ report.anomalies.source_concentration = TRUE

\* C8 (as claimed): that report has source_concentration = true and an
\* anomaly score of exactly 10.
C8_ConcentratedScoreTen ==
    C8_Scenario
        => /\ HasMetrics(report)
           /\ report.anomalies.source_concentration = TRUE
           /\ report.anomalies.anomaly_score = 10 * One

\* the PatternMatch entries of the last pattern report
Matches == IF patterns = NoResult THEN {}
           ELSE {patterns.detected_patterns[i] :
                    i \in DOMAIN patterns.detected_patterns}

\* C9: the confidence reported for any signature on any batch lies in [0, 1].
C9_ConfidenceInUnitInterval ==
    \A m \in Matches : m.confidence >= 0 /\ m.confidence <= Milli

C9_Witness ==
    \E m \in Matches : m.confidence = 750 /\ Len(m.indicators) = 2

\* C10: a PatternMatch has severity 'high' exactly when its confidence is
\* above 0.8, 'medium' exactly when it is above 0.5 and at most 0.8, and
\* 'low' otherwise; confidence 0.8 is 'medium' and confidence 0.5 is 'low'.
C10_SeverityTiers ==
    \A m \in Matches :
        /\ (m.severity = "high") <=> (m.confidence > 800)
        /\ (m.severity = "medium") <=> (m.confidence > 500 /\ m.confidence <= 800)
        /\ (m.severity = "low") <=> (m.confidence <= 500)

C10_Witness ==
    /\ \E m \in Matches : m.confidence = 800 /\ m.severity = "medium"
    /\ \E m \in Matches : m.confidence = 500 /\ m.severity = "low"

\* the last call scanned the full catalog (attack_type None or '')
ScanCalled == AnalyzeCalled /\ ~Truthy(lastCall.arg)

\* the last call asked for one catalog pattern
NamedCalled == AnalyzeCalled /\ lastCall.arg \in PatternNames

\* the confidence of a signature on the batch the last call was given:
\* the mean of its factors, 0 without factors or on an empty batch
ConfidenceOn(pattern_name) ==
    LET factors == ConfidenceFactors(given.columns, given.rows, pattern_name)
    IN  IF IsEmpty(given.columns, given.rows) \/ factors = <<>> THEN 0
        ELSE SumSeq(factors) \div Len(factors)

MatchesOf(pattern_name) == {m \in Matches : m.pattern_name = pattern_name}

\* C11: after a scan of the full catalog the report has a PatternMatch for a
\* signature if and only if the signature's confidence on the batch is
\* strictly greater than 0.3 (and it has matches for signatures only).
C11_ScanKeepsAboveThreshold ==
    ScanCalled
        => /\ \A p \in PatternNames :
                  (MatchesOf(p) # {}) <=> (ConfidenceOn(p) > 300)
           /\ \A m \in Matches : m.pattern_name \in PatternNames

\* a scan that keeps http_flood at 0.5 and drops amplification at exactly 0.3
C11_Witness ==
    /\ ScanCalled
    /\ ConfidenceOn("amplification") = 300
    /\ MatchesOf("amplification") = {}
    /\ ConfidenceOn("http_flood") = 500
    /\ MatchesOf("http_flood") # {}

\* C12: a call with a pattern name of the catalog returns a report with
\* exactly one PatternMatch, the one of that pattern, whatever its confidence
\* and for every batch, the empty batch included.  Stated for the frames
\* that have a column; such a frame is empty when it has no row.
C12_NamedPatternAlwaysReported ==
    (NamedCalled /\ given.columns # {})
        => /\ Len(patterns.detected_patterns) = 1
           /\ patterns.detected_patterns[1].pattern_name = lastCall.arg

\* C13: a report without any pattern match recommends exactly the single
\* 'no attack pattern detected - continue normal monitoring' entry, for
\* every batch, the empty batch included.  Stated for the frames that have
\* a column.
C13_NoMatchSingleRecommendation ==
    (AnalyzeCalled /\ given.columns # {} /\ Matches = {})
        => patterns.recommendations = NoPatternRecommendation

\* C14: a report with at least one pattern match recommends, as a set, the
\* fixed mitigation lists of exactly the reported patterns whose confidence
\* is strictly greater than 0.5, together with the three general
\* recommendations, which are always there.
C14_RecommendationsUnion ==
    (AnalyzeCalled /\ Matches # {})
        => patterns.recommendations
               = UNION {Mitigations(m.pattern_name) :
                           m \in {x \in Matches : x.confidence > 500}}
                     \cup GeneralRecommendations

\* a scan that reports syn_flood at 0.75 and http_flood at exactly 0.5:
\* only the syn_flood list is contributed
C14_Witness ==
    /\ ScanCalled
    /\ \E m \in MatchesOf("syn_flood") : m.confidence = 750
    /\ \E m \in MatchesOf("http_flood") : m.confidence = 500
    /\ Mitigations("syn_flood") \subseteq patterns.recommendations
    /\ Mitigations("http_flood") \cap patterns.recommendations = {}

\* the indicator factors the claim lists for a signature, on the batch the
\* last call was given; a factor on a field the batch lacks does not apply
ClaimedFactors(pattern_name) ==
    LET size == NRows(given.rows)
        has_src == "source_ip" \in given.columns
        has_bytes == "bytes" \in given.columns
        top_over_30 == \E s \in SrcSet(given.rows) :
                           10 * SrcCount(given.rows, s) > 3 * size
        unique == Cardinality(SrcSet(given.rows))
    IN  CASE pattern_name = "syn_flood" ->
                 (IF size > 1000 THEN <<700>> ELSE <<>>)
                 \o (IF ~has_src THEN <<>>
                     ELSE IF top_over_30 THEN <<800>> ELSE <<300>>)
          [] pattern_name = "udp_flood" ->
                 (IF size > 500 THEN <<600>> ELSE <<>>)
                 \o (IF ~has_src THEN <<>>
                     ELSE IF unique > 100 THEN <<700>> ELSE <<400>>)
          [] pattern_name = "http_flood" ->
                 IF size > 2000 THEN <<800>>
                 ELSE IF size > 800 THEN <<500>> ELSE <<200>>
          [] pattern_name = "amplification" ->
                 IF ~has_bytes THEN <<>>
                 ELSE IF SumBytes(given.rows) > 1000 * size
                      THEN <<700>> ELSE <<300>>

\* C15: the confidence of each of the four signatures is the unweighted mean
\* of exactly the indicator factors that apply (syn_flood: 0.7 only above
\* 1000 rows, 0.8 if the top source exceeds 30% else 0.3; udp_flood: 0.6 only
\* above 500 rows, 0.7 above 100 unique sources else 0.4; http_flood: 0.8
\* above 2000 rows, 0.5 above 800, else 0.2; amplification: 0.7 if the mean
\* size exceeds 1000 bytes else 0.3), and 0 when no factor applies.
C15_ConfidenceIsMeanOfFactors ==
    AnalyzeCalled
        => \A m \in Matches :
               m.pattern_name \in PatternNames
                   => LET factors == ClaimedFactors(m.pattern_name)
                      IN  /\ Len(m.indicators) = Len(factors)
                          /\ m.confidence
                                 = IF factors = <<>> THEN 0
                                   ELSE SumSeq(factors) \div Len(factors)

\* udp_flood asked for on more than 500 rows from more than 100 sources
C15_Witness ==
    /\ NamedCalled
    /\ Cardinality(SrcSet(given.rows)) > 100
    /\ \E m \in MatchesOf("udp_flood") :
           m.confidence = 650 /\ Len(m.indicators) = 2

SeverityCalled == lastCall.op = "calculate_attack_severity"

\* calculate_attack_severity(traffic_volume=1000, baseline_volume=100,
\*                           duration_minutes=300, affected_services=6)
C16_Scenario ==
    /\ SeverityCalled
    /\ args = [traffic_volume |-> 1000, baseline_volume |-> 100,
               duration_minutes |-> 300, affected_services |-> 6]

\* C16 as amended: for traffic 1000 over baseline 100 during 300 minutes
\* with 6 services the volume score is 3 (the ratio 10 is not above 10),
\* the duration score 3, the service score 3, the overall severity 9 and
\* the level 'Critical'.
C16_RatioTenScoresThree ==
    C16_Scenario
        => /\ returned.volume_impact = Halves(3)
           /\ returned.duration_impact = Halves(3)
           /\ returned.service_impact = Halves(3)
           /\ returned.overall_severity = Halves(9)
           /\ returned.severity_level = "Critical"

C16_Witness == C16_Scenario /\ returned.overall_severity < Halves(10)

\* C16 as stated: volume score 4, duration score 3, service score 3,
\* overall severity 10 and level 'Critical'.
C16_ScenarioScoresTen ==
    C16_Scenario
        => /\ returned.volume_impact = Halves(4)
           /\ returned.duration_impact = Halves(3)
           /\ returned.service_impact = Halves(3)
           /\ returned.overall_severity = Halves(10)
           /\ returned.severity_level = "Critical"

\* the level the claim gives for a sum of sub-scores
ClaimedLevel(total) ==
    CASE total >= Halves(8) -> "Critical"
      [] total < Halves(8) /\ total >= Halves(6) -> "High"
      [] total < Halves(6) /\ total >= Halves(4) -> "Medium"
      [] total < Halves(4) /\ total >= Halves(2) -> "Low"
      [] total < Halves(2) -> "Minimal"

\* C17: for all inputs the overall severity is the sum of the volume,
\* duration and service sub-scores, the level is 'Critical' from 8,
\* 'High' from 6, 'Medium' from 4, 'Low' from 2 and 'Minimal' below, and
\* a baseline_volume <= 0 gives the volume sub-score 0.
C17_SeverityIsSumAndLevel ==
    SeverityCalled
        => /\ returned.overall_severity
                  = returned.volume_impact + returned.duration_impact
                        + returned.service_impact
           /\ returned.severity_level = ClaimedLevel(returned.overall_severity)
           /\ args.baseline_volume <= 0 => returned.volume_impact = 0

\* traffic without a baseline, 61 minutes, no service: 0 + 2 + 0 is 'Low'
C17_Witness ==
    /\ SeverityCalled
    /\ args.baseline_volume <= 0
    /\ args.traffic_volume = 1001
    /\ returned.volume_impact = 0
    /\ returned.overall_severity = Halves(2)
    /\ returned.severity_level = "Low"

ImpactCalled == lastCall.op = "calculate_business_impact"

\* calculate_business_impact(hourly_revenue=10000, outage_hours=4,
\*                           degradation_pct=100) with the default factor 0.3
C18_Scenario ==
    /\ ImpactCalled
    /\ args = [hourly_revenue |-> 10000, outage_duration_hours |-> 4,
               performance_degradation_percent |-> 100,
               reputation_impact_factor |-> 30]

\* C18: direct_loss = hourly_revenue * outage_hours * (1 if degradation_pct
\* >= 100 else degradation_pct / 100), recovery = 0.15 * direct, opportunity
\* = 0.25 * direct, reputation = reputation_factor * direct, total = the sum
\* of the four; for 10000, 4, 100 and the default factor these are 40000,
\* 6000, 10000, 12000 and 68000.  (Amounts in hundredths.)
C18_BusinessImpactFormula ==
    ImpactCalled
        => LET share == IF args.performance_degradation_percent >= 100
                        THEN 100
                        ELSE args.performance_degradation_percent
               direct == args.hourly_revenue * args.outage_duration_hours
                             * share
           IN  /\ returned.direct_revenue_loss = direct
               /\ 100 * returned.recovery_costs = 15 * direct
               /\ 100 * returned.opportunity_cost = 25 * direct
               /\ 100 * returned.reputation_damage
                      = args.reputation_impact_factor * direct
               /\ returned.total_business_impact
                      = returned.direct_revenue_loss + returned.recovery_costs
                            + returned.opportunity_cost
                            + returned.reputation_damage
               /\ C18_Scenario
                      => /\ returned.direct_revenue_loss = 40000 * 100
                         /\ returned.recovery_costs = 6000 * 100
                         /\ returned.opportunity_cost = 10000 * 100
                         /\ returned.reputation_damage = 12000 * 100
                         /\ returned.total_business_impact = 68000 * 100

C18_Witness ==
    /\ C18_Scenario
    /\ returned.total_business_impact = 68000 * 100
    /\ returned.impact_per_hour = 17000 * 100

EffectivenessCalled == lastCall.op = "calculate_mitigation_effectiveness"

\* the improvements of the returned dictionary
Reported == DOMAIN returned \ {"overall_effectiveness"}

\* the metrics present in both dictionaries given
InBoth == DOMAIN args.baseline_metrics \cap DOMAIN args.current_metrics

\* C19: an improvement is reported only for a metric present in both
\* inputs, every reported improvement lies in [0, 100], the overall value is
\* the mean of the reported improvements (so it lies in [0, 100] too), and
\* when no metric is comparable the result is empty, without an overall
\* field and without an error.
C19_EffectivenessClampedMean ==
    EffectivenessCalled
        => /\ \A k \in Reported :
                  \E m \in InBoth : ImprovementName(m) = k
           /\ \A k \in Reported :
                  returned[k] >= 0 /\ returned[k] <= 100 * One
           /\ ("overall_effectiveness" \in DOMAIN returned) <=> (Reported # {})
           /\ Reported # {}
                  => LET n == Cardinality(Reported)
                         total == SumOver(returned, Reported)
                         overall == returned["overall_effectiveness"]
                     IN  /\ 2 * (overall * n - total) <= n
                         /\ 2 * (total - overall * n) <= n
                         /\ overall >= 0 /\ overall <= 100 * One
           /\ InBoth = {} => returned = EmptyDict /\ raised = "none"

\* traffic down from 160 to 40 (75%), errors up from 40 to 160 (clamped to
\* 0), the response time missing after mitigation: the overall is 37.5
C19_Witness ==
    /\ EffectivenessCalled
    /\ InBoth = {"traffic_volume", "error_rate"}
    /\ "response_time" \in DOMAIN args.baseline_metrics
    /\ args.current_metrics["error_rate"] > args.baseline_metrics["error_rate"]
    /\ DOMAIN returned = {"traffic_reduction", "error_rate_reduction",
                          "overall_effectiveness"}
    /\ returned["traffic_reduction"] = 75 * One
    /\ returned["error_rate_reduction"] = 0
    /\ 2 * returned["overall_effectiveness"] = 75 * One

ExtractCalled == lastCall.op = "extract_traffic_features"

\* C20: the feature table has exactly one row per observation of the batch,
\* in the order of the batch, for every combination of present and absent
\* timestamp, source_ip and bytes fields.  Stated for the frames that have a
\* column; row i of the table is recognised by the features it takes from
\* observation i.
C20_OneFeatureRowPerObservation ==
    (ExtractCalled /\ given.columns # {})
        => /\ NRows(returned.rows) = NRows(given.rows)
           /\ Len(returned.rows) = Len(given.rows)
           /\ \A i \in 1..Len(given.rows) :
                  LET f == returned.rows[i]
                      r == given.rows[i]
                  IN  /\ f.n = r.n
                      /\ "bytes" \in given.columns => f.request_size = r.bytes
                      /\ "timestamp" \in given.columns
                             => f.minute = r.ts % 60
                      /\ "source_ip" \in given.columns
                             => f.source_ip_frequency
                                    = SrcCount(given.rows, r.src)

\* ------------------------------------------------------------------ C21
GenerateCalled ==
    lastCall.op = "generate_attack_simulation_data" /\ raised = "none"

\* observations of the returned batch whose timestamp lies in the minute
\* that starts t minutes after start_time
ObservationsInMinute(t) ==
    SumRange([i \in DOMAIN returned.rows |->
                 IF returned.rows[i].ts = t THEN returned.rows[i].n ELSE 0],
             1, Len(returned.rows))

\* C21: in a batch produced by generate_attack_simulation_data the number of
\* observations whose timestamp falls in a simulated minute is base_rate (100)
\* times that minute's intensity multiplier, truncated to an integer, for
\* every simulated minute and every intensity.
C21_RequestsPerSimulatedMinute ==
    GenerateCalled =>
        \A m \in TimeRange(args.duration_hours) :
            ObservationsInMinute(m)
                = RequestsThisMinute(args.attack_type, args.duration_hours,
                                     args.intensity, m)

\* ------------------------------------------------------------------ C22
\* the report of a batch that has a source field
SourceReport ==
    /\ ProcessCalled
    /\ HasMetrics(report)
    /\ "source_ip" \in given.columns

\* the entropy the code computes for k sources of equal counts: k terms
\* -(1/k) * log2(1/k)
EvenEntropy(k) == 0 - k * PLogP(1, k)

\* the numbers of sources for which the fixed point tells the entropy of an
\* uneven batch from that of the even one: with more sources the two differ
\* by less than the rounding of the k terms
ComparedSources == {1, 2, 3, 4, 5}

\* C22: the source entropy reported for a batch is 0 when all observations
\* share one source, and for a fixed number k of distinct sources it is
\* largest when all k sources have equal counts.
C22_EntropyZeroAndMaximalWhenEven ==
    SourceReport =>
        LET entropy == report.source_metrics.source_ip_entropy
            k == report.source_metrics.unique_source_ips
        IN  /\ k = 1 => entropy = 0
            /\ k \in ComparedSources => entropy <= EvenEntropy(k)
            /\ (\A i, j \in 1..Len(given.rows) :
                    given.rows[i].n = given.rows[j].n)
                   => entropy = EvenEntropy(k)

C22_Witness ==
    /\ SourceReport
    /\ report.source_metrics.unique_source_ips = 3
    /\ \E i, j \in 1..Len(given.rows) : given.rows[i].n # given.rows[j].n
    /\ report.source_metrics.source_ip_entropy > 0
    /\ report.source_metrics.source_ip_entropy < EvenEntropy(3)

\* ------------------------------------------------------------------ C23
\* the batch with one observation moved from one source to another
Moved(rws, from, to) ==
    [i \in DOMAIN rws |->
        IF rws[i].src = from THEN [rws[i] EXCEPT !.n = @ - 1]
        ELSE IF rws[i].src = to THEN [rws[i] EXCEPT !.n = @ + 1]
        ELSE rws[i]]

\* (sum of the ten largest per-source counts / batch size) * 100
TenLargestShare(rws) ==
    LET source_counts == ValueCounts(rws)
        largest == [i \in DOMAIN source_counts |->
                       IF i <= 10 THEN source_counts[i].count ELSE 0]
    IN  Percentage(SumRange(largest, 1, Len(source_counts)), NRows(rws))

\* C23: for a fixed batch size, moving an observation from a less frequent
\* source to a more frequent source never decreases top_10_source_percentage,
\* which is (sum of the ten largest per-source counts / batch size) * 100.
C23_TopTenShareMonotone ==
    SourceReport =>
        /\ report.source_metrics.top_10_source_percentage
               = TenLargestShare(given.rows)
        /\ \A from, to \in SrcSet(given.rows) :
               SrcCount(given.rows, from) < SrcCount(given.rows, to)
                   => TenLargestShare(Moved(given.rows, from, to))
                          >= report.source_metrics.top_10_source_percentage

C23_Witness ==
    /\ SourceReport
    /\ report.source_metrics.unique_source_ips = 12
    /\ report.source_metrics.top_10_source_percentage < 100 * One
    /\ \E from, to \in SrcSet(given.rows) :
           /\ SrcCount(given.rows, from) < SrcCount(given.rows, to)
           /\ TenLargestShare(Moved(given.rows, from, to))
                  > report.source_metrics.top_10_source_percentage

\* ------------------------------------------------------------------ C24
\* the report of a batch that has observations and at least one field
FieldsReport ==
    /\ ProcessCalled
    /\ NRows(given.rows) > 0
    /\ given.columns # {}

\* the rows with a value in the field f for every observation
WithField(rws, f) ==
    [i \in DOMAIN rws |->
        IF f = "source_ip" THEN [rws[i] EXCEPT !.src = 1]
        ELSE IF f = "bytes" THEN [rws[i] EXCEPT !.bytes = 100]
        ELSE rws[i]]

\* the metrics of a report that are not computed from the field f
RemainingMetrics(r, f) ==
    IF f = "timestamp"
    THEN [source_metrics |-> r.source_metrics,
          volume_metrics |-> r.volume_metrics,
          source_concentration |-> r.anomalies.source_concentration]
    ELSE IF f = "source_ip"
    THEN [time_metrics |-> r.time_metrics,
          volume_metrics |-> r.volume_metrics,
          high_volume_periods |-> r.anomalies.high_volume_periods]
    ELSE [time_metrics |->
              IF r.time_metrics = EmptyDict THEN EmptyDict
              ELSE [r.time_metrics EXCEPT !.avg_bytes_per_minute = 0,
                                          !.max_bytes_per_minute = 0],
          source_metrics |-> r.source_metrics,
          total_requests |-> r.volume_metrics.total_requests,
          requests_per_second |-> r.volume_metrics.requests_per_second,
          anomalies |-> r.anomalies]

TopSourceCount(rws) ==
    CHOOSE c \in {SrcCount(rws, s) : s \in SrcSet(rws)} :
        \A s \in SrcSet(rws) : SrcCount(rws, s) <= c

\* C25: the source_concentration flag of a non-empty batch with source ids is
\* true exactly when the count of the single most frequent source is strictly
\* greater than 20% of the batch size; a share of exactly 20% leaves the flag
\* false.
C25_ConcentrationAboveTwentyPercent ==
    SourceReport =>
        LET top == TopSourceCount(given.rows)
            size == NRows(given.rows)
        IN  /\ report.anomalies.source_concentration <=> (100 * top > 20 * size)
            /\ 100 * top = 20 * size => ~report.anomalies.source_concentration

C25_Witness ==
    /\ SourceReport
    /\ 100 * TopSourceCount(given.rows) = 20 * NRows(given.rows)
    /\ ~report.anomalies.source_concentration

\* ------------------------------------------------------------------ C26
\* the largest confidence each catalog signature can be given
ConfidenceCap(pattern_name) ==
    IF pattern_name \in {"syn_flood", "http_flood"} THEN 800 ELSE 700

\* C26: no PatternMatch produced by the analyzer ever has severity 'high': for
\* every batch and every catalog signature the confidence is at most 0.8
\* (syn_flood at most 0.8, udp_flood at most 0.7, http_flood at most 0.8,
\* amplification at most 0.7), so the 'high' tier is unreachable.
C26_HighSeverityUnreachable ==
    \A m \in Matches :
        /\ m.severity # "high"
        /\ m.confidence <= 800
        /\ m.pattern_name \in PatternNames
               => m.confidence <= ConfidenceCap(m.pattern_name)

\* a batch on which syn_flood reaches its largest confidence
C26_Witness ==
    /\ AnalyzeCalled
    /\ \E m \in MatchesOf("syn_flood") :
           m.confidence = ConfidenceCap("syn_flood") /\ m.severity = "medium"

\* ------------------------------------------------------------------ C27
\* a full scan of a batch that has observations and a source field
ScanWithSources ==
    /\ ScanCalled
    /\ NRows(given.rows) > 0
    /\ "source_ip" \in given.columns

\* C27: for every non-empty batch that has a source field, a full-catalog
\* scan always retains a udp_flood match (its confidence is at least 0.4), so
\* the 'no attack pattern detected' recommendation is never returned for such
\* a batch.
C27_ScanAlwaysRetainsUdpFlood ==
    ScanWithSources =>
        /\ \E i \in DOMAIN patterns.detected_patterns :
               /\ patterns.detected_patterns[i].pattern_name = "udp_flood"
               /\ patterns.detected_patterns[i].confidence >= 400
        /\ patterns.recommendations \cap NoPatternRecommendation = {}

\* a scan that retains udp_flood alone, at its lowest confidence
C27_Witness ==
    /\ ScanWithSources
    /\ Len(patterns.detected_patterns) = 1
    /\ patterns.detected_patterns[1].pattern_name = "udp_flood"
    /\ patterns.detected_patterns[1].confidence = 400

\* ------------------------------------------------------------------ C28
\* the columns the batch had before any operation was called on it
OriginalColumns ==
    columns \cup (IF index = "timestamp" THEN {"timestamp"} ELSE {})

\* C28: the results of analyze_attack_pattern and extract_traffic_features on
\* a batch do not depend on whether process_traffic_data was called on that
\* same batch beforehand: running process first and then the other operation
\* yields the same pattern report and the same feature table (including the
\* hour, day-of-week, minute and requests-per-minute features) as running the
\* other operation alone.
C28_ResultsIndependentOfProcess ==
    /\ AnalyzeCalled
           => patterns = AnalyzeResult(OriginalColumns, rows, lastCall.arg)
    /\ ExtractCalled
           => returned = FeatureTable(OriginalColumns, rows)

\* ------------------------------------------------------------------ C29
\* the distinct sources of the batch the last call was given
DistinctSources == Cardinality(SrcSet(given.rows))

\* C29: any non-empty batch with at most 4 distinct sources has
\* source_concentration = true and therefore an anomaly score of at least
\* 3.0, regardless of batch size or how evenly the traffic is spread over
\* those sources.
C29_FewSourcesAreConcentrated ==
    (SourceReport /\ DistinctSources <= 4)
        => /\ report.anomalies.source_concentration
           /\ report.anomalies.anomaly_score >= 3 * One

\* four sources of equal counts: the score is exactly 3.0
C29_Witness ==
    /\ SourceReport
    /\ DistinctSources = 4
    /\ \A i, j \in 1..Len(given.rows) : given.rows[i].n = given.rows[j].n
    /\ report.anomalies.source_concentration
    /\ report.anomalies.anomaly_score = 3 * One

\* ------------------------------------------------------------------ C30
\* the sources named in the suspicious-sources list of the report
SuspiciousIps ==
    {report.source_metrics.suspicious_sources[i].source_ip :
        i \in DOMAIN report.source_metrics.suspicious_sources}

====
